---- MODULE Spec2Model ----
(***************************************************************************)
(* A model of game_tools.py: Player (payoff_vector, is_best_response,      *)
(* best_response), NormalFormGame (__init__, __getitem__, __setitem__,     *)
(* is_nash), random_choice and pure2mixed.                                 *)
(*                                                                         *)
(* Payoffs are integers counting multiples of 5e-9, so that the tolerance  *)
(* tol = 1e-8 of Player is the integer Tol = 2 and the payoff 1.0 is Unit. *)
(* Python values are records with a field "tag"; an ndarray is its shape   *)
(* and a function from the index tuples of that shape (0-based entries) to *)
(* its elements, a numpy scalar is an ndarray of shape <<>>.               *)
(***************************************************************************)
EXTENDS Integers, Sequences, FiniteSets, TLC

VARIABLES
    numpy_int_is_int, \* the interpreter: isinstance(numpy.int64(0), int)
    payoff_array,     \* the payoff_array of a stand-alone Player
    constructed,      \* the outcome of NormalFormGame.__init__
    arrays,           \* the heap: the ndarray objects the players refer to
    players,          \* NormalFormGame.players, each a reference into arrays
    N,                \* NormalFormGame.N
    writes,           \* the number of __setitem__ calls made so far
    op, args, ret     \* the last call, its arguments and what it returned

vars == <<numpy_int_is_int, payoff_array, constructed, arrays, players, N,
          writes, op, args, ret>>

game == <<constructed, arrays, players, N, writes>>

(***************************************************************************)
(* Bounds of the model and constants of the program.                       *)
(***************************************************************************)
\* the payoffs drawn and written are 0..MaxVal (multiples of 5e-9)
MaxVal == 3
\* the number of __setitem__ calls in one behaviour
MaxWrites == 2
\* Player.tol = 1e-8, in multiples of 5e-9
Tol == 2
\* the payoff 1.0 in multiples of 5e-9
Unit == 200000000

Vals == 0..MaxVal

(***************************************************************************)
(* Python values.                                                          *)
(***************************************************************************)
PyInt(n) == [tag |-> "int", v |-> n]
NpInt(n) == [tag |-> "npint", v |-> n]
NpFloat(n) == [tag |-> "npfloat", v |-> n]
PyNone == [tag |-> "None"]
PyStr(s) == [tag |-> "str", v |-> s]
PyBool(b) == [tag |-> "bool", v |-> b]
PyList(s) == [tag |-> "list", items |-> s]
\* a tuple of Python ints
PyTuple(s) == [tag |-> "tuple", items |-> s]
Raise(e) == [tag |-> "error", type |-> e]
IsError(x) == x.tag = "error"

Front(s) == SubSeq(s, 1, Len(s) - 1)
Last(s) == s[Len(s)]

RECURSIVE SeqMax(_)
SeqMax(s) == IF Len(s) = 0 THEN 0
             ELSE IF Head(s) > SeqMax(Tail(s)) THEN Head(s) ELSE SeqMax(Tail(s))

\* the index tuples of an array of the given shape
Indices(shape) ==
    {idx \in [1..Len(shape) -> 0..(SeqMax(shape) - 1)] :
        \A k \in 1..Len(shape) : idx[k] < shape[k]}

ndarray(dtype, shape, data) ==
    [tag |-> "ndarray", dtype |-> dtype, shape |-> shape, data |-> data]

\* numpy.asarray of a sequence of Python numbers
asarray(dtype, s) == ndarray(dtype, <<Len(s)>>, [idx \in Indices(<<Len(s)>>) |->
                                                    s[idx[1] + 1]])

zeros(shape) == ndarray("float", shape, [idx \in Indices(shape) |-> 0])

size(a) == Cardinality(DOMAIN a.data)
ndim(a) == Len(a.shape)

\* a[i] for a 1-dimensional array a: a numpy scalar of the array's dtype
item(a, i) ==
    IF a.dtype = "int" THEN NpInt(a.data[<<i>>]) ELSE NpFloat(a.data[<<i>>])

\* a[tuple(index)]: the sub-array at a possibly partial index
index_tuple(a, index) ==
    IF Len(index) > ndim(a) THEN Raise("IndexError")
    ELSE IF \E k \in 1..Len(index) : index[k] >= a.shape[k]
    THEN Raise("IndexError")
    ELSE ndarray(a.dtype, SubSeq(a.shape, Len(index) + 1, ndim(a)),
                 [idx \in Indices(SubSeq(a.shape, Len(index) + 1, ndim(a))) |->
                     a.data[index \o idx]])

\* a[tuple(index)] = value, value a number: every element under index is set
assign_tuple(a, index, value) ==
    IF Len(index) > ndim(a) THEN Raise("IndexError")
    ELSE IF \E k \in 1..Len(index) : index[k] >= a.shape[k]
    THEN Raise("IndexError")
    ELSE ndarray(a.dtype, a.shape,
                 [idx \in Indices(a.shape) |->
                     IF SubSeq(idx, 1, Len(index)) = index THEN value
                     ELSE a.data[idx]])

\* a.take(i, axis=-1)
take(a, i) ==
    IF i >= Last(a.shape) THEN Raise("IndexError")
    ELSE ndarray(a.dtype, Front(a.shape), [idx \in Indices(Front(a.shape)) |->
                                              a.data[Append(idx, i)]])

RECURSIVE dot_sum(_, _, _, _)
dot_sum(a, b, idx, n) ==
    IF n = 0 THEN 0
    ELSE dot_sum(a, b, idx, n - 1) + a.data[Append(idx, n - 1)] * b.data[<<n - 1>>]

\* a.dot(b), a an array of 1 or more dimensions
dot(a, b) ==
    IF b.tag \in {"npint", "npfloat", "int"}
    THEN ndarray(a.dtype, a.shape, [idx \in Indices(a.shape) |->
                                       a.data[idx] * b.v])
    ELSE IF b.tag = "ndarray" /\ ndim(b) = 1
    THEN IF Last(a.shape) # b.shape[1] THEN Raise("ValueError")
         ELSE ndarray("float", Front(a.shape),
                      [idx \in Indices(Front(a.shape)) |->
                          dot_sum(a, b, idx, b.shape[1])])
    ELSE Raise("TypeError")

\* a.max() over all the elements of a non-empty array
amax(a) ==
    CHOOSE m \in {a.data[idx] : idx \in DOMAIN a.data} :
        \A idx \in DOMAIN a.data : a.data[idx] <= m

\* numpy.argmax of a 1-dimensional array: the first index of the maximum
argmax(a) ==
    CHOOSE i \in 0..(a.shape[1] - 1) :
        /\ a.data[<<i>>] = amax(a)
        /\ \A j \in 0..(i - 1) : a.data[<<j>>] < amax(a)

\* a >= x elementwise
greater_equal(a, x) == ndarray("bool", a.shape, [idx \in Indices(a.shape) |->
                                                    a.data[idx] >= x])

RECURSIVE where_seq(_, _)
where_seq(cond, n) ==
    IF n = 0 THEN <<>>
    ELSE IF cond.data[<<n - 1>>] THEN Append(where_seq(cond, n - 1), n - 1)
         ELSE where_seq(cond, n - 1)

\* numpy.where(cond)[0] of a 1-dimensional boolean array
where(cond) == asarray("int", where_seq(cond, cond.shape[1]))

\* isinstance(x, int)
isinstance_int(x) ==
    \/ x.tag = "int"
    \/ x.tag = "npint" /\ numpy_int_is_int

(***************************************************************************)
(* pure2mixed and random_choice.                                           *)
(***************************************************************************)
pure2mixed_shift(num_actions, action) ==
    ndarray("float", <<num_actions>>,
            [idx \in Indices(<<num_actions>>) |->
                IF idx[1] = (action + 1) % num_actions THEN 1 ELSE 0])

pure2mixed(num_actions, action) ==
    ndarray("float", <<num_actions>>,
            [idx \in Indices(<<num_actions>>) |->
                IF idx[1] = action THEN 1 ELSE 0])

\* the values random_choice(actions) can return, actions a 1-dimensional array
random_choice(actions) ==
    IF actions.shape[1] = 1 THEN {item(actions, 0)}
    ELSE {item(actions, i) : i \in 0..(actions.shape[1] - 1)}

(***************************************************************************)
(* Player: self is the player's payoff_array.                              *)
(***************************************************************************)
num_opponents(self) == ndim(self) - 1
num_actions(self) == self.shape[1]
action_sizes(self) == self.shape

reduce_last_player(array, action) ==
    IF isinstance_int(action) THEN take(array, action.v)
    ELSE dot(array, action)

\* opponents_actions[i]
subscript(x, i) ==
    IF x.tag = "list"
    THEN IF i < Len(x.items) THEN x.items[i + 1] ELSE Raise("IndexError")
    ELSE IF x.tag = "tuple"
    THEN IF i < Len(x.items) THEN PyInt(x.items[i + 1]) ELSE Raise("IndexError")
    ELSE IF x.tag = "ndarray" /\ ndim(x) = 1
    THEN IF i < x.shape[1] THEN item(x, i) ELSE Raise("IndexError")
    ELSE Raise("TypeError")

\* the loop of payoff_vector, from opponent i - 1 down to opponent 0
RECURSIVE reduce_from(_, _, _)
reduce_from(array, opponents_actions, i) ==
    IF i = 0 THEN array
    ELSE LET action == subscript(opponents_actions, i - 1)
         IN IF IsError(action) THEN action
            ELSE LET reduced == reduce_last_player(array, action)
                 IN IF IsError(reduced) THEN reduced
                    ELSE reduce_from(reduced, opponents_actions, i - 1)

RECURSIVE reduce_forward(_, _, _, _)
reduce_forward(array, opponents_actions, i, n) ==
    IF i = n THEN array
    ELSE LET action == subscript(opponents_actions, i)
         IN IF IsError(action) THEN action
            ELSE LET reduced == reduce_last_player(array, action)
                 IN IF IsError(reduced) THEN reduced
                    ELSE reduce_forward(reduced, opponents_actions, i + 1, n)

\* a payoff_vector whose loop runs over the opponents first to last
payoff_vector_forward(self, opponents_actions) ==
    IF num_opponents(self) = 1
    THEN reduce_last_player(self, opponents_actions)
    ELSE IF num_opponents(self) >= 2
    THEN reduce_forward(self, opponents_actions, 0, num_opponents(self))
    ELSE self

payoff_vector(self, opponents_actions) ==
    IF num_opponents(self) = 1
    THEN reduce_last_player(self, opponents_actions)
    ELSE IF num_opponents(self) >= 2
    THEN reduce_from(self, opponents_actions, num_opponents(self))
    ELSE self

\* an is_best_response that compares with > in place of >=
is_best_response_strict(self, own_action, opponents_actions) ==
    LET pv == payoff_vector(self, opponents_actions)
    IN IF IsError(pv) THEN pv
       ELSE IF isinstance_int(own_action)
       THEN LET own == index_tuple(pv, <<own_action.v>>)
            IN IF IsError(own) THEN own
               ELSE ndarray("bool", own.shape,
                            [idx \in Indices(own.shape) |->
                                own.data[idx] > amax(pv) - Tol])
       ELSE Raise("TypeError")

\* the numpy boolean (scalar or array) is_best_response returns, or an error
is_best_response(self, own_action, opponents_actions) ==
    LET pv == payoff_vector(self, opponents_actions)
    IN IF IsError(pv) THEN pv
       ELSE LET payoff_max == amax(pv)
            IN IF isinstance_int(own_action)
               THEN LET own == index_tuple(pv, <<own_action.v>>)
                    IN IF IsError(own) THEN own
                       ELSE greater_equal(own, payoff_max - Tol)
               ELSE IF own_action.tag \in {"npint", "npfloat"}
               THEN greater_equal(dot(pv, own_action), payoff_max - Tol)
               ELSE IF own_action.tag = "ndarray" /\ ndim(own_action) = 1
                       /\ ndim(pv) = 1
               THEN LET d == dot(pv, own_action)
                    IN IF IsError(d) THEN d
                       ELSE greater_equal(d, payoff_max - Tol)
               ELSE Raise("TypeError")

\* the values best_response can return (more than one under 'random')
best_response(self, opponents_actions, tie_breaking) ==
    LET pv == payoff_vector(self, opponents_actions)
    IN IF IsError(pv) THEN {pv}
       ELSE IF tie_breaking = PyStr("first") THEN {NpInt(argmax(pv))}
       ELSE LET best_responses == where(greater_equal(pv, amax(pv) - Tol))
            IN IF tie_breaking = PyStr("random")
               THEN random_choice(best_responses)
               ELSE IF tie_breaking = PyBool(FALSE) THEN {best_responses}
               ELSE {Raise("ValueError")}

(***************************************************************************)
(* NormalFormGame.  A game is the heap of payoff arrays and, per player,   *)
(* the reference to that player's array: two players built from the same   *)
(* ndarray object refer to one array.                                      *)
(***************************************************************************)
PlayerObj(a) == [tag |-> "Player", payoff_array |-> a]

\* tuple(sizes[j] for j in np.arange(i, i+n) % n)
rotate(sizes, i, n) == [k \in 1..n |-> sizes[((i + k - 1) % n) + 1]]

\* a.take(i, axis=-1).transpose(np.arange(i, i+n) % n)
take_transpose(a, i, n) ==
    LET t == take(a, i)
    IN ndarray(t.dtype, rotate(t.shape, i, n),
               [idx \in Indices(rotate(t.shape, i, n)) |->
                   t.data[[m \in 1..n |-> idx[((m - 1 - i) % n) + 1]]]])

\* the consistency check of player i against player 0: "ok" or the error raised
check_action_sizes(data, i, n) ==
    LET action_sizes_0 == action_sizes(data.items[1].payoff_array)
        action_sizes_i == action_sizes(data.items[i + 1].payoff_array)
    IN IF Len(action_sizes_i) # n THEN "ValueError"
       ELSE IF Len(action_sizes_0) < n THEN "IndexError"
       ELSE IF action_sizes_i # rotate(action_sizes_0, i, n) THEN "ValueError"
       ELSE "ok"

NewGame(as, ps, n) == [tag |-> "game", arrays |-> as, players |-> ps, N |-> n]

\* NormalFormGame.__init__: the game built, or the error raised
NormalFormGame_init(data) ==
    IF data.tag = "list"
    THEN LET n == Len(data.items)
             bad == {i \in 1..(n - 1) : check_action_sizes(data, i, n) # "ok"}
         IN IF bad # {}
            THEN Raise(check_action_sizes(
                        data, CHOOSE i \in bad : \A j \in bad : i <= j, n))
            ELSE NewGame([k \in 1..n |-> data.items[k].payoff_array],
                         [k \in 1..n |-> k], n)
    ELSE IF ndim(data) = 0
    THEN NewGame(<<zeros(<<data.data[<<>>]>>)>>, <<1>>, 1)
    ELSE IF ndim(data) = 1
    THEN LET n == size(data)
             sizes == [k \in 1..n |-> data.data[<<k - 1>>]]
         IN NewGame([k \in 1..n |-> zeros(rotate(sizes, k - 1, n))],
                    [k \in 1..n |-> k], n)
    ELSE IF ndim(data) = 2 /\ data.shape[2] >= 2
    THEN IF data.shape[1] # data.shape[2] THEN Raise("ValueError")
         ELSE NewGame(<<data>>, <<1, 1>>, 2)
    ELSE LET n == ndim(data) - 1
         IN IF Last(data.shape) # n THEN Raise("ValueError")
            ELSE NewGame([k \in 1..n |-> take_transpose(data, k - 1, n)],
                         [k \in 1..n |-> k], n)

\* player i's payoff_array in the game (as, ps), i counted from 0
array_of(as, ps, i) == as[ps[i + 1]]

\* tuple(index[np.arange(i, i+n) % n]), index = np.asarray(action_profile)
\* of length n
rotated_index(action_profile, i, n) ==
    [k \in 1..n |-> action_profile[((i + k - 1) % n) + 1]]

RECURSIVE getitem_from(_, _, _, _, _)
getitem_from(as, ps, n, action_profile, i) ==
    IF i = n THEN <<>>
    ELSE LET x == index_tuple(array_of(as, ps, i),
                              rotated_index(action_profile, i, n))
             rest == getitem_from(as, ps, n, action_profile, i + 1)
         IN <<x>> \o rest

\* NormalFormGame.__getitem__, action_profile a tuple of ints or an int
getitem(as, ps, n, action_profile) ==
    IF action_profile.tag # "tuple" THEN Raise("TypeError")
    ELSE IF Len(action_profile.items) # n THEN Raise("IndexError")
    ELSE LET r == getitem_from(as, ps, n, action_profile.items, 0)
         IN IF \E k \in 1..n : IsError(r[k])
            THEN r[CHOOSE k \in 1..n :
                       IsError(r[k]) /\ \A j \in 1..(k - 1) : ~IsError(r[j])]
            ELSE PyList(r)

\* the loop of __setitem__ from player i on: the heap it leaves and the error
\* that stopped it, if any
RECURSIVE setitem_from(_, _, _, _, _, _)
setitem_from(as, ps, n, action_profile, payoff_profile, i) ==
    IF i = n THEN [arrays |-> as, ret |-> PyNone]
    ELSE LET a == assign_tuple(array_of(as, ps, i),
                               rotated_index(action_profile, i, n),
                               payoff_profile[i + 1])
         IN IF IsError(a) THEN [arrays |-> as, ret |-> a]
            ELSE setitem_from([as EXCEPT ![ps[i + 1]] = a], ps, n,
                              action_profile, payoff_profile, i + 1)

\* NormalFormGame.__setitem__
setitem(as, ps, n, action_profile, payoff_profile) ==
    IF action_profile.tag # "tuple"
    THEN [arrays |-> as, ret |-> Raise("TypeError")]
    ELSE IF Len(action_profile.items) # n
    THEN [arrays |-> as, ret |-> Raise("IndexError")]
    ELSE IF payoff_profile.tag # "tuple"
    THEN [arrays |-> as, ret |-> Raise("TypeError")]
    ELSE IF Len(payoff_profile.items) # n
    THEN [arrays |-> as, ret |-> Raise("ValueError")]
    ELSE setitem_from(as, ps, n, action_profile.items, payoff_profile.items, 0)

\* bool(x) of what is_best_response returned
truth(x) ==
    IF IsError(x) THEN x
    ELSE IF size(x) = 1
    THEN PyBool(x.data[CHOOSE idx \in DOMAIN x.data : TRUE])
    ELSE IF size(x) = 0 THEN PyBool(FALSE)
    ELSE Raise("ValueError")

\* action_profile[np.arange(i+1, i+n) % n], action_profile a 1-dim. int array
opponents_of(action_profile, i, n) ==
    IF \E k \in 1..(n - 1) : (i + k) % n >= action_profile.shape[1]
    THEN Raise("IndexError")
    ELSE ndarray("int", <<n - 1>>,
                 [idx \in Indices(<<n - 1>>) |->
                     action_profile.data[<<(i + 1 + idx[1]) % n>>]])

\* a player_check that, of two players, hands each its own action as the
\* other's
player_check_own(as, ps, n, action_profile, i) ==
    IF n = 2
    THEN LET own_action == subscript(action_profile, i)
             opponent_action == subscript(action_profile, i)
         IN IF IsError(own_action) THEN own_action
            ELSE IF IsError(opponent_action) THEN opponent_action
            ELSE is_best_response(array_of(as, ps, i), own_action,
                                  opponent_action)
    ELSE IF n >= 3
    THEN LET profile == asarray("int", action_profile.items)
             own_action == subscript(profile, i)
         IN IF IsError(own_action) THEN own_action
            ELSE LET opponents_actions == opponents_of(profile, i, n)
                 IN IF IsError(opponents_actions) THEN opponents_actions
                    ELSE is_best_response(array_of(as, ps, i), own_action,
                                          opponents_actions)
    ELSE LET own_action == subscript(action_profile, 0)
         IN IF IsError(own_action) THEN own_action
            ELSE is_best_response(array_of(as, ps, 0), own_action, PyNone)

\* what player i's is_best_response returns in is_nash, or the error raised
\* on the way to it; action_profile is a tuple of ints
player_check(as, ps, n, action_profile, i) ==
    IF n = 2
    THEN LET own_action == subscript(action_profile, i)
             opponent_action == subscript(action_profile, 1 - i)
         IN IF IsError(own_action) THEN own_action
            ELSE IF IsError(opponent_action) THEN opponent_action
            ELSE is_best_response(array_of(as, ps, i), own_action,
                                  opponent_action)
    ELSE IF n >= 3
    THEN LET profile == asarray("int", action_profile.items)
             own_action == subscript(profile, i)
         IN IF IsError(own_action) THEN own_action
            ELSE LET opponents_actions == opponents_of(profile, i, n)
                 IN IF IsError(opponents_actions) THEN opponents_actions
                    ELSE is_best_response(array_of(as, ps, i), own_action,
                                          opponents_actions)
    ELSE LET own_action == subscript(action_profile, 0)
         IN IF IsError(own_action) THEN own_action
            ELSE is_best_response(array_of(as, ps, 0), own_action, PyNone)

RECURSIVE is_nash_from(_, _, _, _, _)
is_nash_from(as, ps, n, action_profile, i) ==
    IF i = n THEN PyBool(TRUE)
    ELSE LET t == truth(player_check(as, ps, n, action_profile, i))
         IN IF IsError(t) THEN t
            ELSE IF ~t.v THEN PyBool(FALSE)
            ELSE is_nash_from(as, ps, n, action_profile, i + 1)

\* NormalFormGame.is_nash
is_nash(as, ps, n, action_profile) ==
    is_nash_from(as, ps, n, action_profile, 0)

(***************************************************************************)
(* Inputs.                                                                 *)
(***************************************************************************)
\* every float array of the given shape with elements in vs
Arrays(shape, vs) ==
    {[tag |-> "ndarray", dtype |-> "float", shape |-> shape, data |-> d] :
        d \in [Indices(shape) -> vs]}

\* np.asarray of an int, of a list of lists and of a list of lists of tuples
array0(n) == ndarray("int", <<>>, [idx \in Indices(<<>>) |-> n])
array2(rows) ==
    ndarray("int", <<Len(rows), Len(rows[1])>>,
            [idx \in Indices(<<Len(rows), Len(rows[1])>>) |->
                rows[idx[1] + 1][idx[2] + 1]])
array3(rows) ==
    ndarray("int", <<Len(rows), Len(rows[1]), Len(rows[1][1])>>,
            [idx \in Indices(<<Len(rows), Len(rows[1]), Len(rows[1][1])>>) |->
                rows[idx[1] + 1][idx[2] + 1][idx[3] + 1]])

matching_pennies_bimatrix ==
    array3(<< << <<Unit, -Unit>>, <<-Unit, Unit>> >>,
              << <<-Unit, Unit>>, <<Unit, -Unit>> >> >>)

coordination_game_matrix == array2(<< <<4 * Unit, 0>>, <<3 * Unit, 2 * Unit>> >>)

\* a three-player payoff array of shape (2, 1, 2, 3)
three_player_array ==
    ndarray("int", <<2, 1, 2, 3>>,
            [idx \in Indices(<<2, 1, 2, 3>>) |->
                (2 * idx[1] + idx[3] + idx[4] * idx[1]) % 3])

\* what NormalFormGame is constructed from in the lifecycle specification
ConstructorData ==
    { array0(2),
      asarray("int", <<2, 2>>), asarray("int", <<2, 3>>),
      asarray("int", <<2, 1, 2>>),
      coordination_game_matrix, zeros(<<3, 2>>),
      matching_pennies_bimatrix, zeros(<<2, 2, 3>>), three_player_array,
      PyList(<<PlayerObj(coordination_game_matrix),
               PlayerObj(array2(<< <<4 * Unit, 0>>, <<3 * Unit, 2 * Unit>> >>))>>),
      PyList(<<PlayerObj(zeros(<<2, 3>>)), PlayerObj(zeros(<<2, 3>>))>>),
      PyList(<<PlayerObj(zeros(<<2>>)), PlayerObj(zeros(<<2, 2>>))>>),
      PyList(<<PlayerObj(zeros(<<2, 2, 2>>)), PlayerObj(zeros(<<2, 2>>))>>) }

\* the payoff arrays of the stand-alone Players
PlayerArrays ==
    Arrays(<<3>>, Vals) \cup Arrays(<<2, 2>>, Vals) \cup Arrays(<<3, 2>>, Vals)
    \cup Arrays(<<1, 2, 2>>, Vals) \cup Arrays(<<2, 2, 2>>, {0, MaxVal})

\* the two-player games of the is_nash specification
NashData ==
    Arrays(<<2, 2, 2>>, {0, 1, MaxVal}) \cup Arrays(<<2, 2>>, Vals)
    \cup Arrays(<<2, 3, 2>>, {0, MaxVal})
    \cup {matching_pennies_bimatrix, coordination_game_matrix}

TieBreakings == {PyStr("first"), PyStr("random"), PyBool(FALSE), PyStr("all")}

\* NormalFormGame.nums_actions
nums_actions == action_sizes(arrays[players[1]])

\* the tuples of len actions, each in range where the game has such a player
ActionProfiles(len) ==
    {p \in [1..len -> 0..(SeqMax(nums_actions) - 1)] :
        \A k \in 1..len : k <= Len(nums_actions) => p[k] < nums_actions[k]}

ProfileLengths == {N - 1, N, N + 1}

\* the payoff profiles written: one payoff for all the players, or payoffs
\* that differ from each player to the next, or one payoff too many
PayoffProfiles ==
    {[k \in 1..N |-> x] : x \in Vals}
    \cup {[k \in 1..N |-> (x + k) % (MaxVal + 1)] : x \in Vals}
    \cup {[k \in 1..(N + 1) |-> 0]}

\* the profiles of pure actions of the opponents of a Player
OpponentProfiles(self) ==
    {b \in [1..num_opponents(self) -> 0..(SeqMax(self.shape) - 1)] :
        \A j \in 1..num_opponents(self) : b[j] < self.shape[j + 1]}

\* the opponents' pure actions b as payoff_vector takes them, those at the
\* positions in mixed given as pure2mixed's vector: one action if there is
\* one opponent, a list of them if there are more, None if there is none
opponents_actions_of(self, b, mixed) ==
    LET act(j) == IF j \in mixed THEN pure2mixed(self.shape[j + 1], b[j])
                  ELSE PyInt(b[j])
    IN IF num_opponents(self) = 0 THEN PyNone
       ELSE IF num_opponents(self) = 1 THEN act(1)
       ELSE PyList([j \in 1..num_opponents(self) |-> act(j)])

(***************************************************************************)
(* The calls.  A call is made by a caller that is not waiting for another  *)
(* call's result; op, args and ret hold the call until it has returned.    *)
(***************************************************************************)
Idle == op \in {"none", "__init__", "__setitem__"}

Return ==
    /\ ~Idle
    /\ op' = "none"
    /\ args' = PyNone
    /\ ret' = PyNone
    /\ UNCHANGED <<numpy_int_is_int, payoff_array, game>>

Construct ==
    /\ constructed = "new"
    /\ \E data \in ConstructorData :
          LET g == NormalFormGame_init(data)
          IN /\ op' = "__init__"
             /\ args' = [data |-> data]
             /\ IF IsError(g)
                THEN /\ constructed' = "error"
                     /\ ret' = g
                     /\ UNCHANGED <<arrays, players, N>>
                ELSE /\ constructed' = "ok"
                     /\ arrays' = g.arrays
                     /\ players' = g.players
                     /\ N' = g.N
                     /\ ret' = PyNone
    /\ UNCHANGED <<numpy_int_is_int, payoff_array, writes>>

GetItem ==
    /\ Idle
    /\ constructed = "ok"
    /\ \E len \in ProfileLengths : \E p \in ActionProfiles(len) :
          /\ op' = "__getitem__"
          /\ args' = [action_profile |-> p]
          /\ ret' = getitem(arrays, players, N, PyTuple(p))
    /\ UNCHANGED <<numpy_int_is_int, payoff_array, game>>

SetItem ==
    /\ Idle
    /\ constructed = "ok"
    /\ writes < MaxWrites
    /\ \E len \in ProfileLengths : \E p \in ActionProfiles(len) :
       \E v \in PayoffProfiles :
          LET r == setitem(arrays, players, N, PyTuple(p), PyTuple(v))
          IN /\ op' = "__setitem__"
             /\ args' = [action_profile |-> p, payoff_profile |-> v]
             /\ arrays' = r.arrays
             /\ ret' = r.ret
    /\ writes' = writes + 1
    /\ UNCHANGED <<numpy_int_is_int, payoff_array, constructed, players, N>>

IsNash ==
    /\ Idle
    /\ constructed = "ok"
    /\ \E len \in ProfileLengths : \E p \in ActionProfiles(len) :
          /\ op' = "is_nash"
          /\ args' = [action_profile |-> p]
          /\ ret' = is_nash(arrays, players, N, PyTuple(p))
    /\ UNCHANGED <<numpy_int_is_int, payoff_array, game>>

PayoffVector ==
    /\ Idle
    /\ \E b \in OpponentProfiles(payoff_array) :
       \E mixed \in SUBSET (1..num_opponents(payoff_array)) :
          LET o == opponents_actions_of(payoff_array, b, mixed)
          IN /\ op' = "payoff_vector"
             /\ args' = [b |-> b, mixed |-> mixed, opponents_actions |-> o]
             /\ ret' = payoff_vector(payoff_array, o)
    /\ UNCHANGED <<numpy_int_is_int, payoff_array, game>>

IsBestResponse ==
    /\ Idle
    /\ \E a \in 0..(num_actions(payoff_array) - 1) :
       \E b \in OpponentProfiles(payoff_array) :
       \E mixed \in SUBSET (1..num_opponents(payoff_array)) :
          LET o == opponents_actions_of(payoff_array, b, mixed)
          IN /\ op' = "is_best_response"
             /\ args' = [own_action |-> a, b |-> b, mixed |-> mixed,
                         opponents_actions |-> o]
             /\ ret' = is_best_response(payoff_array, PyInt(a), o)
    /\ UNCHANGED <<numpy_int_is_int, payoff_array, game>>

BestResponse ==
    /\ Idle
    /\ \E b \in OpponentProfiles(payoff_array) :
       \E mixed \in SUBSET (1..num_opponents(payoff_array)) :
       \E tie_breaking \in TieBreakings :
          LET o == opponents_actions_of(payoff_array, b, mixed)
          IN /\ op' = "best_response"
             /\ args' = [b |-> b, mixed |-> mixed, opponents_actions |-> o,
                         tie_breaking |-> tie_breaking]
             /\ ret' \in best_response(payoff_array, o, tie_breaking)
    /\ UNCHANGED <<numpy_int_is_int, payoff_array, game>>

(***************************************************************************)
(* The lifecycle of a game: construction, then reads, writes and is_nash.  *)
(***************************************************************************)
Init ==
    /\ numpy_int_is_int \in BOOLEAN
    /\ payoff_array = zeros(<<1>>)
    /\ constructed = "new"
    /\ arrays = <<>>
    /\ players = <<>>
    /\ N = 0
    /\ writes = 0
    /\ op = "none"
    /\ args = PyNone
    /\ ret = PyNone

Next == Construct \/ GetItem \/ SetItem \/ IsNash \/ Return

Spec == Init /\ [][Next]_vars

(***************************************************************************)
(* A stand-alone Player and the calls of its methods.                      *)
(***************************************************************************)
InitPlayer ==
    /\ numpy_int_is_int \in BOOLEAN
    /\ payoff_array \in PlayerArrays
    /\ constructed = "new"
    /\ arrays = <<>>
    /\ players = <<>>
    /\ N = 0
    /\ writes = 0
    /\ op = "none"
    /\ args = PyNone
    /\ ret = PyNone

NextPlayer == PayoffVector \/ IsBestResponse \/ BestResponse \/ Return

SpecPlayer == InitPlayer /\ [][NextPlayer]_vars

(***************************************************************************)
(* Two-player games, as constructed, and is_nash on them.                  *)
(***************************************************************************)
InitNash ==
    /\ numpy_int_is_int \in BOOLEAN
    /\ payoff_array = zeros(<<1>>)
    /\ \E data \in NashData :
          LET g == NormalFormGame_init(data)
          IN /\ constructed = "ok"
             /\ arrays = g.arrays
             /\ players = g.players
             /\ N = g.N
    /\ writes = 0
    /\ op = "none"
    /\ args = PyNone
    /\ ret = PyNone

NextNash == IsNash \/ Return

SpecNash == InitNash /\ [][NextNash]_vars

(***************************************************************************)
(* The claims.                                                             *)
(***************************************************************************)
SetMax(S) == CHOOSE m \in S : \A x \in S : x <= m

\* the value of a numpy scalar
scalar(x) == x.data[<<>>]

\* the elements of a 1-dimensional array
elements(a) == {a.data[idx] : idx \in DOMAIN a.data}

\* the game's shape invariant: every player's array has N dimensions and
\* player i's shape is player 0's rotated by i
ShapeInvariant ==
    \A i \in 0..(N - 1) :
        /\ ndim(array_of(arrays, players, i)) = N
        /\ Len(nums_actions) = N
        /\ action_sizes(array_of(arrays, players, i)) = rotate(nums_actions, i, N)

\* player i's payoff array read at the two-player profile with i playing a
\* and the other player playing as in p
payoff2(i, a, p) == array_of(arrays, players, i).data[<<a, p[2 - i]>>]

\* player i's action in the two-player profile p is within Tol of the best
\* payoff i can get against the other player's action in p
BestResponding2(i, p) ==
    payoff2(i, p[i + 1], p) >=
        SetMax({payoff2(i, a, p) :
                   a \in 0..(num_actions(array_of(arrays, players, i)) - 1)}) - Tol

\* C1: in a two-player game is_nash((a0, a1)) is true exactly if each player's
\* payoff at (a0, a1) is at least the maximum of its payoffs over its own
\* actions against the other's action, minus the tolerance; matching pennies
\* has no pure Nash profile, and the symmetric coordination game has (0, 0)
\* and (1, 1) and no other.
C1_IsNashTwoPlayers ==
    (op = "is_nash" /\ N = 2 /\ Len(args.action_profile) = 2) =>
        LET p == args.action_profile
        IN /\ ret.tag = "bool"
           /\ ret.v = (BestResponding2(0, p) /\ BestResponding2(1, p))
           /\ arrays = NormalFormGame_init(matching_pennies_bimatrix).arrays
                 => ret.v = FALSE
           /\ arrays = <<coordination_game_matrix>>
                 => ret.v = (p \in {<<0, 0>>, <<1, 1>>})

\* C1's case: is_nash answers true for a profile at which a player's payoff is
\* below its best payoff, within the tolerance
C1_Witness ==
    /\ op = "is_nash" /\ N = 2 /\ Len(args.action_profile) = 2
    /\ ret = PyBool(TRUE)
    /\ \E a \in 0..1 :
          payoff2(0, a, args.action_profile) >
              payoff2(0, args.action_profile[1], args.action_profile)

\* C2: for a Player with at least one opponent and pure actions b of the
\* opponents, given as Python ints (the one int if there is one opponent, a
\* sequence of them otherwise), payoff_vector returns a vector of length
\* num_actions whose entry a is the payoff array read at (a, b_1, ..., b_k).
C2_PayoffVectorIsLookup ==
    (/\ op = "payoff_vector" /\ args.mixed = {}
     /\ num_opponents(payoff_array) >= 1) =>
        /\ ret.tag = "ndarray"
        /\ ret.shape = <<num_actions(payoff_array)>>
        /\ \A a \in 0..(num_actions(payoff_array) - 1) :
              ret.data[<<a>>] = payoff_array.data[<<a>> \o args.b]

\* C2's case: two opponents play different actions and the payoff read with
\* their actions exchanged is another one
C2_Witness ==
    /\ op = "payoff_vector" /\ args.mixed = {}
    /\ num_opponents(payoff_array) = 2
    /\ ret.tag = "ndarray"
    /\ ret.data[<<0>>] # payoff_array.data[<<0, args.b[2], args.b[1]>>]

\* C8: giving any of the opponents' pure actions b_j as pure2mixed(size of
\* axis j, b_j), the others as ints, leaves payoff_vector's result as it is
\* with all of them given as ints, entry by entry.
C8_OneHotAsPure ==
    (op = "payoff_vector" /\ args.mixed # {}) =>
        LET pure == payoff_vector(payoff_array,
                                  opponents_actions_of(payoff_array, args.b, {}))
        IN /\ ret.tag = "ndarray"
           /\ ret.shape = pure.shape
           /\ \A idx \in DOMAIN pure.data : ret.data[idx] = pure.data[idx]

\* C8's case: of two opponents the first plays a pure action and the second
\* its one-hot vector, and the payoffs depend on the second's action
C8_Witness ==
    /\ op = "payoff_vector" /\ args.mixed = {2}
    /\ num_opponents(payoff_array) = 2
    /\ ret.tag = "ndarray"
    /\ ret.data[<<0>>] # payoff_array.data[<<0, args.b[1], 1 - args.b[2]>>]

\* the array best_response(opponents_actions, tie_breaking=False) returns
best_response_set(self, opponents_actions) ==
    CHOOSE r \in best_response(self, opponents_actions, PyBool(FALSE)) : TRUE

\* C5: best_response with tie_breaking='first' returns the lowest index of the
\* best-response set: the first element of best_response(o, False).
C5_FirstIsLowestOfSet ==
    (op = "best_response" /\ args.tie_breaking = PyStr("first")) =>
        ret.v = item(best_response_set(payoff_array, args.opponents_actions), 0).v

\* C6: is_best_response(a, o) is true exactly if a is an element of the array
\* best_response(o, tie_breaking=False) returns, and that array is not empty
\* and in ascending order.
C6_IsBestResponseIffInSet ==
    /\ op = "is_best_response" =>
          /\ ret.tag = "ndarray" /\ ret.shape = <<>>
          /\ scalar(ret) =
                (args.own_action \in
                    elements(best_response_set(payoff_array,
                                               args.opponents_actions)))
    /\ (op = "best_response" /\ args.tie_breaking = PyBool(FALSE)) =>
          /\ ret.tag = "ndarray" /\ ndim(ret) = 1 /\ ret.shape[1] >= 1
          /\ \A i \in 0..(ret.shape[1] - 2) :
                ret.data[<<i>>] < ret.data[<<i + 1>>]
          /\ \A a \in 0..(num_actions(payoff_array) - 1) :
                (a \in elements(ret)) =
                    scalar(is_best_response(payoff_array, PyInt(a),
                                            args.opponents_actions))

\* C6's case: of three actions two are best responses, one of them with a
\* payoff exactly the tolerance below the maximum, and the third is not
C6_Witness ==
    /\ op = "is_best_response"
    /\ num_actions(payoff_array) = 3
    /\ scalar(ret)
    /\ LET pv == payoff_vector(payoff_array, args.opponents_actions)
       IN /\ pv.data[<<args.own_action>>] = amax(pv) - Tol
          /\ \E a \in 0..2 : pv.data[<<a>>] < amax(pv) - Tol

\* the payoffs the read g[q] returns are the same in the two heaps
SameRead(as1, as2, q) ==
    getitem(as1, players, N, PyTuple(q)) = getitem(as2, players, N, PyTuple(q))

\* C3: in a game built by any of the constructor's paths, after the write
\* g[p] = v of an in-range profile p and N payoffs v, the read g[p] returns v:
\* player i's payoff is v[i].  (Stated of the games that satisfy the shape
\* invariant.)
C3_ReadAfterWrite ==
    (op = "__setitem__" /\ ret = PyNone /\ ShapeInvariant) =>
        LET r == getitem(arrays, players, N, PyTuple(args.action_profile))
        IN /\ r.tag = "list"
           /\ \A i \in 1..N : /\ r.items[i].shape = <<>>
                              /\ scalar(r.items[i]) = args.payoff_profile[i]

\* C4: a write g[p] = v changes the payoffs at p only: the read g[q] of every
\* other profile q returns after the write what it returned before it.
\* (Stated of the games that satisfy the shape invariant.)
C4_WriteFrame ==
    [][(op' = "__setitem__" /\ writes' = writes + 1 /\ ShapeInvariant) =>
          \A q \in ActionProfiles(N) \ {args'.action_profile} :
              SameRead(arrays', arrays, q)]_vars

\* C7: g[p], g[p] = v and is_nash(p) all end in an error when the length of p
\* is not the number of players.
C7_WrongLengthIsError ==
    (/\ op \in {"__getitem__", "__setitem__", "is_nash"}
     /\ Len(args.action_profile) # N) => IsError(ret)

\* C9: a game that was constructed satisfies the shape invariant (every
\* player's array, player 0's too, has N dimensions, and player i's shape is
\* player 0's rotated by i), and the construction from a list of Players
\* that violates it fails with an error.
C9_ConstructedShapes ==
    /\ constructed = "ok" => ShapeInvariant
    /\ (op = "__init__" /\ args.data.tag = "list") =>
          LET n == Len(args.data.items)
              shape(i) == action_sizes(args.data.items[i + 1].payoff_array)
              consistent ==
                  \A i \in 0..(n - 1) :
                      /\ Len(shape(i)) = n
                      /\ Len(shape(0)) = n
                      /\ shape(i) = rotate(shape(0), i, n)
          IN ~consistent => (constructed = "error" /\ IsError(ret))

\* C10: with three or more players, for every player i the opponents' actions
\* is_nash hands to player i reduce i's payoff array through payoff_vector to
\* a vector of length num_actions whose entry at p[i] is i's payoff in the
\* read g[p], and is_nash(p) returns the boolean that is true exactly if for
\* every player that entry is within the tolerance of the vector's maximum.
C10_IsNashRotation ==
    (op = "is_nash" /\ N >= 3 /\ Len(args.action_profile) = N) =>
        LET p == args.action_profile
            self(i) == array_of(arrays, players, i)
            pv(i) == payoff_vector(self(i),
                                   opponents_of(asarray("int", p), i, N))
            g == getitem(arrays, players, N, PyTuple(p))
        IN /\ \A i \in 0..(N - 1) :
                 /\ pv(i).tag = "ndarray"
                 /\ pv(i).shape = <<num_actions(self(i))>>
                 /\ pv(i).data[<<p[i + 1]>>] = scalar(g.items[i + 1])
           /\ ret.tag = "bool"
           /\ ret.v = \A i \in 0..(N - 1) :
                         pv(i).data[<<p[i + 1]>>] >= amax(pv(i)) - Tol

====
